---- MODULE Spec2Model ----
(***************************************************************************)
(* A model of cnc_sender.py: the Machine state, the Tk button handlers     *)
(* (run_gcode, pause_resume, stop_program, home_machine, probe_old_tool,   *)
(* probe_new_tool), the job worker thread gcode_thread started by          *)
(* run_gcode, and the serial transport `ser` with the GRBL firmware        *)
(* behind it.                                                              *)
(*                                                                         *)
(* The Tk main loop runs one handler at a time; a handler is one action    *)
(* unless it blocks in ser.readline(), where the worker threads and the    *)
(* firmware run on.  A worker thread is cut at every read of               *)
(* machine.state, every ser.write and every ser.readline.                  *)
(***************************************************************************)
EXTENDS Integers, Sequences, FiniteSets, TLC

(* ---------------- bounds of the model ---------------- *)

\* worker threads that may exist at once (run_gcode itself sets no limit)
MaxWorkers == 2
\* lines of the program file
MaxLen == 2
\* response lines the serial input buffer holds unread
MaxRx == 1
\* command lines the firmware holds unanswered
MaxOwed == 1

(* ---------------- MachineState ---------------- *)

READY    == "Ready"
RUNNING  == "Running"
PAUSED   == "Paused"
STOPPED  == "Stopped"
PROBING1 == "Probing Step 1"
PROBING2 == "Probing Step 2"

MachineState == {READY, RUNNING, PAUSED, STOPPED, PROBING1, PROBING2}

(* ---------------- program files ---------------- *)

\* the three kinds of line a program file holds: a G-code block, a comment
\* line and a blank line, each as the file iterator yields it
CodeLine    == "G1 X10 F100\n"
CommentLine == ";comment\n"
BlankLine   == "\n"
FileLines   == {CodeLine, CommentLine, BlankLine}

\* str.strip() on the lines above
Strip(line) ==
    CASE line = CodeLine    -> "G1 X10 F100"
      [] line = CommentLine -> ";comment"
      [] line = BlankLine   -> ""
      [] OTHER              -> line

\* the file at gcode_file_path is read a line at a time: each line the iterator
\* yields is one of FileLines, and the file ends after at most MaxLen lines
NoLine == "(no line)"

SeqsUpTo(S, n) == UNION {[1..k -> S] : k \in 0..n}

Workers == 1..MaxWorkers

(* ---------------- the transport and the firmware ---------------- *)

\* response lines of the firmware, as ser.readline().decode().strip() yields them
OkLine    == "ok"
ErrorLine == "error:20"
AlarmLine == "ALARM:1"
PrbLine   == "[PRB:0.000,0.000,-45.010:1]"

\* further lines a probing move may be answered with: the report of another
\* height, a report cut short on the wire, and a report whose third field the
\* regex of get_z_position takes and float() rejects
PrbLineFast == "[PRB:0.000,0.000,-45.230:1]"
CutPrbLine  == "[PRB:0.000,0.000"
JunkPrbLine == "[PRB:0.000,0.000,-:1]"

\* a line that closes the command it answers; a probe report precedes the closing line
Closing == {OkLine, ErrorLine, AlarmLine}

\* what the firmware of a real controller may send
GrblReplies == {OkLine, ErrorLine, AlarmLine, PrbLine}

\* the same with every kind of probe report the serial line may deliver
ProbeReplies == GrblReplies \cup {PrbLineFast, CutPrbLine, JunkPrbLine}

\* bytes written by the program
FeedHold   == "!"
CycleStart == "~"
SoftReset  == "^X\n"
HomeCmd    == "$H\n"
SpindleOff == "M5\n"

\* real-time bytes are picked off the stream by the firmware and never answered
RealTime == {FeedHold, CycleStart}

Min(a, b) == IF a < b THEN a ELSE b

\* the number of unanswered command lines after the firmware receives cmd; a soft
\* reset drops what was pending, and ack tells whether the newline written after
\* the reset byte is answered
FwRecv(o, cmd, ack) ==
    CASE cmd \in RealTime -> o
      [] cmd = SoftReset  -> IF ack THEN 1 ELSE 0
      [] OTHER            -> Min(o + 1, MaxOwed)

RECURSIVE FwRecvAll(_, _, _)
FwRecvAll(o, cmds, ack) ==
    IF cmds = <<>> THEN o
    ELSE FwRecvAll(FwRecv(o, Head(cmds), ack), Tail(cmds), ack)

\* the record of a burst of ser.write calls made by one thread
Tx(by, cmds) == [k \in 1..Len(cmds) |-> [by |-> by, cmd |-> cmds[k]]]

\* the Tk thread; the worker threads are 1..MaxWorkers
UI == 0

(* ---------------- state ---------------- *)

VARIABLES
    state,        \* machine.state
    buttons,      \* the buttons update_button_visibility last put on the grid
    dummy_mode,   \* no serial port was opened at start-up
    serOK,        \* the serial port still works (a failed port raises on every call)
    pc,           \* pc[w]: where worker thread w is in gcode_thread
    i,            \* i[w]: how many lines the for loop of w has read from the file
    line,         \* line[w]: the line w holds and has not passed to send_line yet
    t,            \* t[w]: index of the trailer command w is at
    aborted,      \* aborted[w]: stop_program has run in the life of w (kept by SpecStop)
    lines,        \* lines[w]: the lines the file has yielded to w (kept by SpecRun)
    sent,         \* sent[w]: the program lines w has written (kept by SpecRun)
    errs,         \* errs[w]: the program lines of w an error line answered (kept by SpecRun)
    touch1,       \* what the first probe of the latest probe_tool read (kept by SpecProbe)
    spinStop,     \* spinStop[w]: stop_program ran while w slept in its pause loop (kept by SpecStop)
    resumed,      \* resumed[w]: w has slept in its pause loop and left it on Running (kept by SpecRun)
    raised,       \* an exception left the handler the Tk thread ran last (kept by SpecRaise)
    corr,         \* which command each unread line and each pending answer is for (kept by SpecCorr)
    rx,           \* unread response lines in the serial input buffer
    owed,         \* command lines the firmware has received and not answered
    out,          \* the ser.write calls of the latest step
    ui,           \* where the Tk thread is: idle, or blocked inside a probe handler
    z_position,   \* probe_tool's local z_position between its two probes
    old_tool_z    \* the global old_tool_z

vars == <<state, buttons, dummy_mode, serOK, pc, i, line, t, aborted, lines, sent,
          errs, spinStop, resumed, touch1, raised, corr, rx, owed, out, ui, z_position, old_tool_z>>

jobVars   == <<pc, i, line, t>>
probeVars == <<ui, z_position, old_tool_z>>
envVars   == <<dummy_mode, serOK>>

\* an optional number: None, or Some(z)
None == <<>>
Some(z) == <<z>>
Idle == [h |-> "idle", k |-> 0]

\* update_button_visibility: the layout the grid gets for a machine state
Layout(s) ==
    IF s = STOPPED THEN "home"
    ELSE IF s = PROBING2 THEN "probe2"
    ELSE "main"

\* a thread exists and has not ended
Active(w) == pc[w] \notin {"none", "done", "crashed"}

TypeOK ==
    /\ state \in MachineState
    /\ buttons \in {"main", "home", "probe2"}
    /\ dummy_mode \in BOOLEAN
    /\ serOK \in BOOLEAN
    /\ pc \in [Workers -> {"none", "start", "homeWait", "loop", "pause", "spin", "send",
                           "wait", "trailer", "tsend", "twait", "finally", "toReady",
                           "done", "crashed"}]
    /\ i \in [Workers -> 0..MaxLen]
    /\ line \in [Workers -> FileLines \cup {NoLine}]
    /\ t \in [Workers -> 0..3]
    /\ aborted \in [Workers -> BOOLEAN]
    /\ errs \in [Workers -> 0..MaxLen]
    /\ spinStop \in [Workers -> BOOLEAN]
    /\ resumed \in [Workers -> BOOLEAN]
    /\ raised \in BOOLEAN
    /\ touch1 \in {None, Some(-4501), Some(-4523)}
    /\ corr.prb \in BOOLEAN /\ Len(corr.q) <= MaxOwed /\ Len(corr.rx) <= MaxRx
    /\ rx \in SeqsUpTo(ProbeReplies, MaxRx)
    /\ owed \in 0..MaxOwed

InitWith(modes) ==
    /\ state = READY
    /\ buttons = Layout(READY)
    /\ dummy_mode \in modes
    /\ serOK = ~dummy_mode
    /\ pc = [w \in Workers |-> "none"]
    /\ i = [w \in Workers |-> 0]
    /\ line = [w \in Workers |-> NoLine]
    /\ lines = [w \in Workers |-> <<>>]
    /\ t = [w \in Workers |-> 0]
    /\ aborted = [w \in Workers |-> FALSE]
    /\ sent = [w \in Workers |-> <<>>]
    /\ errs = [w \in Workers |-> 0]
    /\ spinStop = [w \in Workers |-> FALSE]
    /\ resumed = [w \in Workers |-> FALSE]
    /\ raised = FALSE
    /\ touch1 = None
    /\ corr = [q |-> <<>>, prb |-> FALSE, rx |-> <<>>]
    /\ rx = <<>>
    /\ owed = 0
    /\ out = <<>>
    /\ ui = Idle
    /\ z_position = None
    /\ old_tool_z = None

Init == InitWith(BOOLEAN)

(* ---------------- Machine ---------------- *)

\* Machine.transition
transition(new_state) == state' = new_state

(* ---------------- button handlers ---------------- *)

\* the slot a new thread gets
FreeSlot == CHOOSE w \in Workers : ~Active(w) /\ \A v \in Workers : ~Active(v) => w <= v

\* run_gcode: with no port (ser unbound or None) or a failed one, ser.flush()
\* raises before anything else happens
run_gcode ==
    /\ ui = Idle /\ buttons = "main"
    /\ \E w \in Workers : ~Active(w)
    /\ IF dummy_mode \/ ~serOK
       THEN /\ out' = <<>>
            /\ UNCHANGED <<state, buttons, jobVars, rx, owed>>
       ELSE /\ rx' = <<>>
            /\ transition(RUNNING)
            /\ buttons' = Layout(RUNNING)
            /\ pc' = [pc EXCEPT ![FreeSlot] = "start"]
            /\ i' = [i EXCEPT ![FreeSlot] = 0]
            /\ line' = [line EXCEPT ![FreeSlot] = NoLine]
            /\ t' = [t EXCEPT ![FreeSlot] = 0]
            /\ out' = <<>>
            /\ UNCHANGED owed
    /\ UNCHANGED <<envVars, probeVars>>

\* pause_resume reads the state and picks its branch: 1 is the branch of RUNNING,
\* 2 the branch of PAUSED. The worker threads run between this read and the
\* transition of the branch. In any other state only the layout is refreshed.
pause_resume ==
    /\ ui = Idle /\ buttons = "main"
    /\ IF state = RUNNING
       THEN /\ ui' = [h |-> "pause_resume", k |-> 1]
            /\ UNCHANGED buttons
       ELSE IF state = PAUSED
       THEN /\ ui' = [h |-> "pause_resume", k |-> 2]
            /\ UNCHANGED buttons
       ELSE /\ buttons' = Layout(state)
            /\ UNCHANGED ui
    /\ out' = <<>>
    /\ UNCHANGED <<state, envVars, jobVars, z_position, old_tool_z, rx, owed>>

\* the branch pause_resume picked: the transition, the control byte, the layout.
\* The write raises on a failed port, after the transition and before
\* update_button_visibility.
pause_resume_branch ==
    /\ ui.h = "pause_resume"
    /\ IF ui.k = 1
       THEN /\ transition(PAUSED)
            /\ out' = IF dummy_mode \/ ~serOK THEN <<>> ELSE Tx(UI, <<FeedHold>>)
            /\ buttons' = IF ~dummy_mode /\ ~serOK THEN buttons ELSE Layout(PAUSED)
       ELSE /\ transition(RUNNING)
            /\ out' = IF dummy_mode \/ ~serOK THEN <<>> ELSE Tx(UI, <<CycleStart>>)
            /\ buttons' = IF ~dummy_mode /\ ~serOK THEN buttons ELSE Layout(RUNNING)
    /\ ui' = Idle
    /\ UNCHANGED <<envVars, jobVars, z_position, old_tool_z, rx, owed>>

\* stop_program
stop_program ==
    /\ ui = Idle /\ buttons = "main"
    /\ transition(STOPPED)
    /\ IF dummy_mode
       THEN /\ buttons' = Layout(STOPPED)
            /\ out' = <<>>
            /\ UNCHANGED <<rx, owed>>
       ELSE IF ~serOK
       THEN /\ out' = <<>>
            /\ UNCHANGED <<buttons, rx, owed>>
       ELSE /\ out' = Tx(UI, <<FeedHold, SpindleOff, SoftReset>>)
            /\ \E ack \in BOOLEAN :
                   owed' = FwRecvAll(owed, <<FeedHold, SpindleOff, SoftReset>>, ack)
            /\ rx' = <<>>
            /\ buttons' = Layout(STOPPED)
    /\ UNCHANGED <<envVars, pc, i, line, t, probeVars>>

\* home_machine
home_machine ==
    /\ ui = Idle /\ buttons = "home"
    /\ IF dummy_mode
       THEN /\ transition(READY)
            /\ buttons' = Layout(READY)
            /\ out' = <<>>
            /\ UNCHANGED <<rx, owed>>
       ELSE IF ~serOK
       THEN /\ out' = <<>>
            /\ UNCHANGED <<state, buttons, rx, owed>>
       ELSE /\ out' = Tx(UI, <<HomeCmd>>)
            /\ owed' = FwRecv(owed, HomeCmd, TRUE)
            /\ rx' = <<>>
            /\ transition(READY)
            /\ buttons' = Layout(READY)
    /\ UNCHANGED <<envVars, jobVars, probeVars>>

(* ---------------- the tool change ---------------- *)

ProbeFast == "G38.2 Z-50 F200\n"
ProbeSlow == "G38.2 Z-50 F100\n"

\* the commands probe_old_tool passes to send_gcode_and_wait, probe_tool's included
OldToolCmds ==
    << "!\n", "M5\n", "G90\n", "G0 X-21.55 Y-350.5\n", "G91\n",
       ProbeFast, "G0 Z10\n", ProbeSlow,
       "G90\n", "G0 X-100.0 Y-250.0 Z0.0\n", "!\n" >>

\* the commands probe_new_tool passes to send_gcode_and_wait up to the end of
\* probe_tool; apply_tool_offset's G43 follows when there is a reading
NewToolCmds ==
    << "!\n", "M5\n", "G90\n", "G0 X-21.55 Y-350.5\n", "G91\n",
       ProbeFast, "G0 Z10\n", ProbeSlow >>

\* the calls made with probing=True
Probing(cmd) == cmd \in {ProbeFast, ProbeSlow}

\* substring tests of send_gcode_and_wait and get_z_position
Contains(response, word) ==
    CASE word = "ok"    -> response \in {OkLine}
      [] word = "error" -> response \in {ErrorLine}
      [] word = "ALARM" -> response \in {AlarmLine}
      [] word = "PRB"   -> response \in {PrbLine, PrbLineFast, CutPrbLine, JunkPrbLine}
      [] OTHER          -> FALSE

\* send_gcode_and_wait: the line that ends the read loop
WaitDone(response, probing) ==
    IF probing THEN Contains(response, "PRB")
    ELSE \/ Contains(response, "ok") \/ Contains(response, "error")
         \/ Contains(response, "ALARM") \/ Contains(response, "PRB")

\* a get_z_position that answers 0.0 where the regex finds nothing: the fault C11
\* is sensitive to
get_z_position_default(response) ==
    CASE response = PrbLine     -> <<-4501>>
      [] response = PrbLineFast -> <<-4523>>
      [] OTHER                  -> <<0>>

\* get_z_position on a response whose only probe report is its last line: the third
\* coordinate, in hundredths of a millimetre, or None when the regex does not match
get_z_position(response) ==
    CASE response = PrbLine     -> Some(-4501)
      [] response = PrbLineFast -> Some(-4523)
      [] OTHER                  -> None

\* float(match.group(1)) raises ValueError out of get_z_position: the regex
\* matched a third field that is no number
FloatRaises(response) == response = JunkPrbLine

\* a probe_tool that keeps the reading of its first probe: the fault C14 is
\* sensitive to
probe_tool_first(first, second) == IF first = <<>> THEN second ELSE first

\* probe_tool's result from the readings of its two probes: z_position is
\* assigned twice and the second assignment is returned
probe_tool(first, second) == second

\* f"G43 Z{offset:.4f}" for an offset in hundredths of a millimetre
G43(offset) ==
    CASE offset = 0   -> "G43 Z0.0000\n"
      [] offset = 22  -> "G43 Z0.2200\n"
      [] offset = -22 -> "G43 Z-0.2200\n"
      [] OTHER        -> "G43 Z?\n"

\* the Tk thread inside a handler, waiting for the answer to its k-th command
InHandler(h, k) == [h |-> h, k |-> k]

\* probe_old_tool up to the first ser.readline(), or to its prints in dummy mode
probe_old_tool ==
    /\ ui = Idle /\ buttons = "main"
    /\ IF dummy_mode
       THEN /\ transition(PROBING1)
            /\ ui' = InHandler("probe_old_tool", 0)
            /\ out' = <<>>
            /\ UNCHANGED <<buttons, owed>>
       ELSE IF ~serOK
       THEN /\ transition(PROBING1)
            /\ out' = <<>>
            /\ UNCHANGED <<buttons, ui, owed>>
       ELSE /\ transition(PROBING1)
            /\ out' = Tx(UI, <<OldToolCmds[1]>>)
            /\ owed' = FwRecv(owed, OldToolCmds[1], TRUE)
            /\ ui' = InHandler("probe_old_tool", 1)
            /\ UNCHANGED buttons
    /\ UNCHANGED <<envVars, jobVars, rx, z_position, old_tool_z>>

\* probe_old_tool from one ser.readline() that returns a line to the next: when
\* the line ends the wait, the next command is written, and after the last one
\* the handler transitions and returns. In dummy mode it is the rest of the
\* handler after the first transition.
probe_old_tool_read ==
    /\ ui.h = "probe_old_tool"
    /\ IF dummy_mode
       THEN /\ transition(PROBING2)
            /\ buttons' = Layout(PROBING2)
            /\ ui' = Idle
            /\ out' = <<>>
            /\ UNCHANGED <<rx, owed, z_position, old_tool_z>>
       ELSE IF ~serOK
       THEN /\ ui' = Idle
            /\ z_position' = None
            /\ out' = <<>>
            /\ UNCHANGED <<state, buttons, rx, owed, old_tool_z>>
       ELSE /\ rx # <<>>
            /\ rx' = Tail(rx)
            /\ IF ~WaitDone(Head(rx), Probing(OldToolCmds[ui.k]))
               THEN /\ out' = <<>>
                    /\ UNCHANGED <<state, buttons, ui, owed, z_position, old_tool_z>>
               ELSE IF Probing(OldToolCmds[ui.k]) /\ FloatRaises(Head(rx))
               THEN /\ ui' = Idle
                    /\ z_position' = None
                    /\ out' = <<>>
                    /\ UNCHANGED <<state, buttons, owed, old_tool_z>>
               ELSE /\ z_position' = IF OldToolCmds[ui.k] = ProbeFast
                                     THEN get_z_position(Head(rx))
                                     ELSE IF OldToolCmds[ui.k] = ProbeSlow
                                     THEN None ELSE z_position
                    /\ old_tool_z' = IF OldToolCmds[ui.k] = ProbeSlow
                                     THEN probe_tool(z_position, get_z_position(Head(rx)))
                                     ELSE old_tool_z
                    /\ IF ui.k < Len(OldToolCmds)
                       THEN /\ out' = Tx(UI, <<OldToolCmds[ui.k + 1]>>)
                            /\ owed' = FwRecv(owed, OldToolCmds[ui.k + 1], TRUE)
                            /\ ui' = InHandler("probe_old_tool", ui.k + 1)
                            /\ UNCHANGED <<state, buttons>>
                       ELSE /\ transition(PROBING2)
                            /\ buttons' = Layout(PROBING2)
                            /\ ui' = Idle
                            /\ out' = <<>>
                            /\ UNCHANGED owed
    /\ UNCHANGED <<envVars, jobVars>>

\* probe_new_tool up to the first ser.readline(); without a port it runs through
probe_new_tool ==
    /\ ui = Idle /\ buttons = "probe2"
    /\ IF dummy_mode
       THEN /\ transition(READY)
            /\ buttons' = Layout(READY)
            /\ out' = <<>>
            /\ UNCHANGED <<ui, owed>>
       ELSE IF ~serOK
       THEN /\ out' = <<>>
            /\ UNCHANGED <<state, buttons, ui, owed>>
       ELSE /\ out' = Tx(UI, <<NewToolCmds[1]>>)
            /\ owed' = FwRecv(owed, NewToolCmds[1], TRUE)
            /\ ui' = InHandler("probe_new_tool", 1)
            /\ UNCHANGED <<state, buttons>>
    /\ UNCHANGED <<envVars, jobVars, rx, z_position, old_tool_z>>

\* the end of probe_new_tool: time.sleep(5), ser.write(b"$H\n") and the transition
NewToolHome ==
    /\ out' = Tx(UI, <<HomeCmd>>)
    /\ owed' = FwRecv(owed, HomeCmd, TRUE)
    /\ transition(READY)
    /\ buttons' = Layout(READY)
    /\ ui' = Idle

\* apply_tool_offset after its probe_tool: it returns at once without a reading
\* and probe_new_tool goes on to home; reference_z - new_tool_z raises TypeError
\* out of the handler when reference_z is None; otherwise G43 is written and its
\* answer awaited
apply_tool_offset(reference_z, new_tool_z) ==
    IF new_tool_z = None
    THEN NewToolHome
    ELSE IF reference_z = None
    THEN /\ ui' = Idle
         /\ out' = <<>>
         /\ UNCHANGED <<state, buttons, owed>>
    ELSE /\ out' = Tx(UI, <<G43(reference_z[1] - new_tool_z[1])>>)
         /\ owed' = FwRecv(owed, G43(reference_z[1] - new_tool_z[1]), TRUE)
         /\ ui' = InHandler("probe_new_tool", Len(NewToolCmds) + 1)
         /\ UNCHANGED <<state, buttons>>

\* probe_new_tool from one ser.readline() that returns a line to the next.  After
\* probe_tool, apply_tool_offset returns at once without a reading, raises
\* TypeError out of the handler on reference_z - new_tool_z when old_tool_z is
\* None, and otherwise sends G43 and waits for its answer
probe_new_tool_read ==
    /\ ui.h = "probe_new_tool"
    /\ IF ~serOK
       THEN /\ ui' = Idle
            /\ z_position' = None
            /\ out' = <<>>
            /\ UNCHANGED <<state, buttons, rx, owed>>
       ELSE /\ rx # <<>>
            /\ rx' = Tail(rx)
            /\ IF ui.k > Len(NewToolCmds)
               THEN /\ UNCHANGED z_position
                    /\ IF WaitDone(Head(rx), FALSE)
                       THEN NewToolHome
                       ELSE /\ out' = <<>>
                            /\ UNCHANGED <<state, buttons, ui, owed>>
               ELSE IF ~WaitDone(Head(rx), Probing(NewToolCmds[ui.k]))
               THEN /\ out' = <<>>
                    /\ UNCHANGED <<state, buttons, ui, owed, z_position>>
               ELSE IF Probing(NewToolCmds[ui.k]) /\ FloatRaises(Head(rx))
               THEN /\ ui' = Idle
                    /\ z_position' = None
                    /\ out' = <<>>
                    /\ UNCHANGED <<state, buttons, owed>>
               ELSE /\ z_position' = IF NewToolCmds[ui.k] = ProbeFast
                                     THEN get_z_position(Head(rx))
                                     ELSE IF NewToolCmds[ui.k] = ProbeSlow
                                     THEN None ELSE z_position
                    /\ IF ui.k < Len(NewToolCmds)
                       THEN /\ out' = Tx(UI, <<NewToolCmds[ui.k + 1]>>)
                            /\ owed' = FwRecv(owed, NewToolCmds[ui.k + 1], TRUE)
                            /\ ui' = InHandler("probe_new_tool", ui.k + 1)
                            /\ UNCHANGED <<state, buttons>>
                       ELSE apply_tool_offset(old_tool_z,
                                              probe_tool(z_position, get_z_position(Head(rx))))
    /\ UNCHANGED <<envVars, jobVars, old_tool_z>>

(* ---------------- the job worker: run_gcode.gcode_thread ---------------- *)

\* send_line's test of a response: 'ok' or a line starting with 'error' ends the wait
StartsWithError(response) == response \in {ErrorLine}
\* a send_line whose wait only an error line ends: the fault C7 is sensitive to
LineDoneOnErrorOnly(response) == StartsWithError(response)

LineDone(response) == response = "ok" \/ StartsWithError(response)

\* the commands gcode_thread sends after the last line of the file
TrailerCmds == <<SpindleOff, HomeCmd, SoftReset>>

Go(w, label) == pc' = [pc EXCEPT ![w] = label]

\* try: send_line(b"$H\n") up to its ser.write; a failed port raises into
\* `except Exception` and from there to `finally`
gt_start(w) ==
    /\ pc[w] = "start"
    /\ IF serOK
       THEN /\ out' = Tx(w, <<HomeCmd>>)
            /\ owed' = FwRecv(owed, HomeCmd, TRUE)
            /\ Go(w, "homeWait")
       ELSE /\ out' = <<>>
            /\ Go(w, "finally")
            /\ UNCHANGED owed
    /\ UNCHANGED <<state, buttons, envVars, i, line, t, rx, probeVars>>

\* a send_line that raises on an error answer instead of returning: the fault C19
\* is sensitive to
AfterLineRaising(response, after) == IF StartsWithError(response) THEN "finally" ELSE after

\* send_line's `break` on 'ok' and on an error answer alike: it returns to its caller
AfterLine(response, after) == after

\* one ser.readline() of send_line's loop that returns a line (an empty read, on the
\* port's timeout, goes round the loop and changes nothing); after is where the
\* thread goes when the line ends the wait
ReadResponse(w, after) ==
    /\ out' = <<>>
    /\ IF ~serOK
       THEN /\ Go(w, "finally")
            /\ UNCHANGED rx
       ELSE /\ rx # <<>>
            /\ rx' = Tail(rx)
            /\ IF LineDone(Head(rx)) THEN Go(w, AfterLine(Head(rx), after)) ELSE UNCHANGED pc

\* the wait for the answer to $H, then ser.flush() and open(gcode_file_path),
\* which raises FileNotFoundError when the path names no file
gt_home_wait(w) ==
    /\ pc[w] = "homeWait"
    /\ \E found \in BOOLEAN : ReadResponse(w, IF found THEN "loop" ELSE "finally")
    /\ UNCHANGED <<state, buttons, envVars, i, line, t, owed, probeVars>>

\* for i, line in enumerate(file): the file ends, or yields its next line and the
\* body checks for STOPPED
gt_loop(w) ==
    /\ pc[w] = "loop"
    /\ \/ /\ Go(w, "trailer")
          /\ UNCHANGED <<i, line>>
       \/ /\ i[w] < MaxLen
          /\ i' = [i EXCEPT ![w] = @ + 1]
          /\ \E l \in FileLines : line' = [line EXCEPT ![w] = l]
          /\ IF state = STOPPED THEN Go(w, "finally") ELSE Go(w, "pause")
    /\ out' = <<>>
    /\ UNCHANGED <<state, buttons, envVars, t, rx, owed, probeVars>>

\* while machine.get_state() == MachineState.PAUSED
gt_pause(w) ==
    /\ pc[w] = "pause"
    /\ IF state = PAUSED THEN Go(w, "spin") ELSE Go(w, "send")
    /\ out' = <<>>
    /\ UNCHANGED <<state, buttons, envVars, i, line, t, rx, owed, probeVars>>

\* a pause loop that takes up the file at its next line when the machine resumes,
\* dropping the line it held: the fault C22 is sensitive to
gt_spin_skipping(w) ==
    /\ pc[w] = "spin"
    /\ IF state = RUNNING THEN Go(w, "loop") ELSE Go(w, "pause")
    /\ out' = <<>>
    /\ UNCHANGED <<state, buttons, envVars, i, line, t, rx, owed, probeVars>>

\* time.sleep(0.1); if machine.get_state() == MachineState.RUNNING: break
gt_spin(w) ==
    /\ pc[w] = "spin"
    /\ IF state = RUNNING THEN Go(w, "send") ELSE Go(w, "pause")
    /\ out' = <<>>
    /\ UNCHANGED <<state, buttons, envVars, i, line, t, rx, owed, probeVars>>

\* send_line(line.encode('utf-8')) up to its ser.write: only `if line.strip()`
\* decides whether the line is written
gt_send(w) ==
    /\ pc[w] = "send"
    /\ IF Strip(line[w]) = ""
       THEN /\ Go(w, "loop")
            /\ out' = <<>>
            /\ UNCHANGED owed
       ELSE IF serOK
       THEN /\ out' = Tx(w, <<line[w]>>)
            /\ owed' = FwRecv(owed, line[w], TRUE)
            /\ Go(w, "wait")
       ELSE /\ Go(w, "finally")
            /\ out' = <<>>
            /\ UNCHANGED owed
    /\ line' = [line EXCEPT ![w] = NoLine]
    /\ UNCHANGED <<state, buttons, envVars, i, t, rx, probeVars>>

\* the wait for the answer to a program line
gt_line_wait(w) ==
    /\ pc[w] = "wait"
    /\ ReadResponse(w, "loop")
    /\ UNCHANGED <<state, buttons, envVars, i, line, t, owed, probeVars>>

\* if machine.get_state() == MachineState.RUNNING, after the loop
gt_trailer(w) ==
    /\ pc[w] = "trailer"
    /\ IF state = RUNNING
       THEN /\ Go(w, "tsend")
            /\ t' = [t EXCEPT ![w] = 1]
       ELSE /\ Go(w, "finally")
            /\ UNCHANGED t
    /\ out' = <<>>
    /\ UNCHANGED <<state, buttons, envVars, i, line, rx, owed, probeVars>>

\* send_line of a trailer command up to its ser.write
gt_trailer_send(w, acks) ==
    /\ pc[w] = "tsend"
    /\ IF serOK
       THEN /\ out' = Tx(w, <<TrailerCmds[t[w]]>>)
            /\ \E ack \in acks : owed' = FwRecv(owed, TrailerCmds[t[w]], ack)
            /\ Go(w, "twait")
       ELSE /\ out' = <<>>
            /\ Go(w, "finally")
            /\ UNCHANGED owed
    /\ UNCHANGED <<state, buttons, envVars, i, line, t, rx, probeVars>>

\* the wait for the answer to a trailer command and ser.flush(); after the last
\* one, ser.reset_input_buffer() and ser.reset_output_buffer()
gt_trailer_wait(w) ==
    /\ pc[w] = "twait"
    /\ IF ~serOK
       THEN /\ Go(w, "finally")
            /\ UNCHANGED <<rx, t>>
       ELSE /\ rx # <<>>
            /\ IF ~LineDone(Head(rx))
               THEN /\ rx' = Tail(rx)
                    /\ UNCHANGED <<pc, t>>
               ELSE IF t[w] < Len(TrailerCmds)
               THEN /\ rx' = Tail(rx)
                    /\ t' = [t EXCEPT ![w] = @ + 1]
                    /\ Go(w, "tsend")
               ELSE /\ rx' = <<>>
                    /\ Go(w, "finally")
                    /\ UNCHANGED t
    /\ out' = <<>>
    /\ UNCHANGED <<state, buttons, envVars, i, line, owed, probeVars>>

\* a thread that has ended leaves nothing behind but how it ended
Ended(w, how) ==
    /\ pc' = [pc EXCEPT ![w] = how]
    /\ i' = [i EXCEPT ![w] = 0]
    /\ line' = [line EXCEPT ![w] = NoLine]
    /\ t' = [t EXCEPT ![w] = 0]

\* finally: after a stop only a log entry; otherwise time.sleep(2) and
\* ser.flush(), which raises out of the thread on a failed port
gt_finally(w) ==
    /\ pc[w] = "finally"
    /\ IF state = STOPPED \/ serOK
       THEN /\ Go(w, "toReady")
            /\ UNCHANGED <<i, line, t>>
       ELSE Ended(w, "crashed")
    /\ out' = <<>>
    /\ UNCHANGED <<state, buttons, envVars, rx, owed, probeVars>>

\* machine.transition(MachineState.READY), the last statement of the thread
gt_ready(w) ==
    /\ pc[w] = "toReady"
    /\ transition(READY)
    /\ Ended(w, "done")
    /\ out' = <<>>
    /\ UNCHANGED <<buttons, envVars, rx, owed, probeVars>>

(* ---------------- the environment ---------------- *)

\* the firmware sends a line: a closing line answers one pending command
FirmwareReply(r) ==
    /\ serOK /\ owed > 0 /\ Len(rx) < MaxRx
    /\ rx' = Append(rx, r)
    /\ owed' = IF r \in Closing THEN owed - 1 ELSE owed
    /\ out' = <<>>
    /\ UNCHANGED <<state, buttons, envVars, jobVars, probeVars>>

\* the port fails for good (the cable is pulled): every later call on ser raises
TransportFails ==
    /\ serOK
    /\ serOK' = FALSE
    /\ out' = <<>>
    /\ UNCHANGED <<state, buttons, dummy_mode, jobVars, probeVars, rx, owed>>

(* ---------------- specifications ---------------- *)

\* The histories aborted, spinStop, touch1, lines, sent and errs are no state of the program: each is
\* kept by the one specification that needs it and stands still in the others.
NoTrace == UNCHANGED <<aborted, lines, sent, errs, spinStop, resumed, touch1, corr, raised>>

\* the program lines among the writes o that thread w made
ProgramLines(o, w) ==
    LET mine == SelectSeq(o, LAMBDA e : e.by = w /\ e.cmd \in FileLines)
    IN  [k \in 1..Len(mine) |-> mine[k].cmd]

Started(w) == pc[w] # "start" /\ pc'[w] = "start"

\* SpecRun, SpecStop: the error answers to program lines that each thread has read
CountErrs ==
    errs' = [w \in Workers |->
                IF Started(w) THEN 0
                ELSE IF pc[w] = "wait" /\ pc'[w] # "wait" /\ serOK /\ StartsWithError(Head(rx))
                THEN errs[w] + 1
                ELSE errs[w]]

\* SpecRun: what the file yielded to each thread and what the thread wrote of it
TraceRun ==
    /\ lines' = [w \in Workers |->
                    IF Started(w) THEN <<>>
                    ELSE IF i'[w] = i[w] + 1 THEN Append(lines[w], line'[w])
                    ELSE lines[w]]
    /\ sent' = [w \in Workers |->
                    IF Started(w) THEN <<>> ELSE sent[w] \o ProgramLines(out', w)]
    /\ CountErrs
    /\ resumed' = [w \in Workers |->
                       /\ ~Started(w)
                       /\ resumed[w] \/ (pc[w] = "spin" /\ pc'[w] = "send")]
    /\ UNCHANGED <<aborted, spinStop, touch1, corr, raised>>

\* SpecStop: stop_program marks the threads that are active when it runs
MarkAborted ==
    /\ aborted' = [w \in Workers |-> aborted[w] \/ Active(w)]
    /\ spinStop' = [w \in Workers |-> spinStop[w] \/ (pc[w] = "spin" /\ state = PAUSED)]
    /\ CountErrs
    /\ UNCHANGED <<lines, sent, resumed, touch1, corr, raised>>

\* SpecStop: the mark lasts as long as the thread
KeepAborted ==
    /\ aborted' = [w \in Workers |-> aborted[w] /\ ~Started(w) /\ pc'[w] \notin {"done", "crashed"}]
    /\ spinStop' = [w \in Workers |-> spinStop[w] /\ ~Started(w) /\ pc'[w] \notin {"done", "crashed"}]
    /\ CountErrs
    /\ UNCHANGED <<lines, sent, resumed, touch1, corr, raised>>

\* the operator starts a job only when none is active
Solo == \A w \in Workers : ~Active(w)

\* one step of worker thread w
gcode_thread(w, acks) ==
    \/ gt_start(w)
    \/ gt_home_wait(w)
    \/ gt_loop(w)
    \/ gt_pause(w)
    \/ gt_spin(w)
    \/ gt_send(w)
    \/ gt_line_wait(w)
    \/ gt_trailer(w)
    \/ gt_trailer_send(w, acks)
    \/ gt_trailer_wait(w)
    \/ gt_finally(w)
    \/ gt_ready(w)

\* Spec: every button the layout offers, any number of jobs up to MaxWorkers at
\* once, the firmware of a real controller, a port that keeps working
Next ==
    \/ run_gcode /\ NoTrace
    \/ pause_resume /\ NoTrace
    \/ pause_resume_branch /\ NoTrace
    \/ stop_program /\ NoTrace
    \/ home_machine /\ NoTrace
    \/ probe_old_tool /\ NoTrace
    \/ probe_old_tool_read /\ NoTrace
    \/ probe_new_tool /\ NoTrace
    \/ probe_new_tool_read /\ NoTrace
    \/ \E w \in Workers : gt_start(w) /\ NoTrace
    \/ \E w \in Workers : gt_home_wait(w) /\ NoTrace
    \/ \E w \in Workers : gt_loop(w) /\ NoTrace
    \/ \E w \in Workers : gt_pause(w) /\ NoTrace
    \/ \E w \in Workers : gt_spin(w) /\ NoTrace
    \/ \E w \in Workers : gt_send(w) /\ NoTrace
    \/ \E w \in Workers : gt_line_wait(w) /\ NoTrace
    \/ \E w \in Workers : gt_trailer(w) /\ NoTrace
    \/ \E w \in Workers : gt_trailer_send(w, BOOLEAN) /\ NoTrace
    \/ \E w \in Workers : gt_trailer_wait(w) /\ NoTrace
    \/ \E w \in Workers : gt_finally(w) /\ NoTrace
    \/ \E w \in Workers : gt_ready(w) /\ NoTrace
    \/ \E r \in GrblReplies : FirmwareReply(r) /\ NoTrace

Spec == Init /\ [][Next]_vars

\* SpecRaise: whether the handler of the latest click ended by an exception that
\* Tk reports and drops
Raises(b) ==
    /\ raised' = b
    /\ UNCHANGED <<aborted, lines, sent, errs, spinStop, resumed, touch1, corr>>

\* SpecRaise: as Spec with one job at a time; run_gcode raises at its ser.flush()
\* when there is no port or the port has failed
NextRaise ==
    \/ Solo /\ run_gcode /\ Raises(dummy_mode \/ ~serOK)
    \/ pause_resume /\ Raises(FALSE)
    \/ pause_resume_branch /\ Raises(FALSE)
    \/ stop_program /\ Raises(FALSE)
    \/ home_machine /\ Raises(FALSE)
    \/ probe_old_tool /\ Raises(FALSE)
    \/ probe_old_tool_read /\ Raises(FALSE)
    \/ probe_new_tool /\ Raises(FALSE)
    \/ probe_new_tool_read /\ Raises(FALSE)
    \/ \E w \in Workers : gt_start(w) /\ Raises(raised)
    \/ \E w \in Workers : gt_home_wait(w) /\ Raises(raised)
    \/ \E w \in Workers : gt_loop(w) /\ Raises(raised)
    \/ \E w \in Workers : gt_pause(w) /\ Raises(raised)
    \/ \E w \in Workers : gt_spin(w) /\ Raises(raised)
    \/ \E w \in Workers : gt_send(w) /\ Raises(raised)
    \/ \E w \in Workers : gt_line_wait(w) /\ Raises(raised)
    \/ \E w \in Workers : gt_trailer(w) /\ Raises(raised)
    \/ \E w \in Workers : gt_trailer_send(w, BOOLEAN) /\ Raises(raised)
    \/ \E w \in Workers : gt_trailer_wait(w) /\ Raises(raised)
    \/ \E w \in Workers : gt_finally(w) /\ Raises(raised)
    \/ \E w \in Workers : gt_ready(w) /\ Raises(raised)
    \/ \E r \in GrblReplies : FirmwareReply(r) /\ Raises(raised)

SpecRaise == Init /\ [][NextRaise]_vars

\* SpecFault: as Spec with one job at a time, and the port may fail
NextFault ==
    \/ Solo /\ run_gcode /\ NoTrace
    \/ pause_resume /\ NoTrace
    \/ pause_resume_branch /\ NoTrace
    \/ stop_program /\ NoTrace
    \/ home_machine /\ NoTrace
    \/ probe_old_tool /\ NoTrace
    \/ probe_old_tool_read /\ NoTrace
    \/ probe_new_tool /\ NoTrace
    \/ probe_new_tool_read /\ NoTrace
    \/ \E w \in Workers : gt_start(w) /\ NoTrace
    \/ \E w \in Workers : gt_home_wait(w) /\ NoTrace
    \/ \E w \in Workers : gt_loop(w) /\ NoTrace
    \/ \E w \in Workers : gt_pause(w) /\ NoTrace
    \/ \E w \in Workers : gt_spin(w) /\ NoTrace
    \/ \E w \in Workers : gt_send(w) /\ NoTrace
    \/ \E w \in Workers : gt_line_wait(w) /\ NoTrace
    \/ \E w \in Workers : gt_trailer(w) /\ NoTrace
    \/ \E w \in Workers : gt_trailer_send(w, BOOLEAN) /\ NoTrace
    \/ \E w \in Workers : gt_trailer_wait(w) /\ NoTrace
    \/ \E w \in Workers : gt_finally(w) /\ NoTrace
    \/ \E w \in Workers : gt_ready(w) /\ NoTrace
    \/ \E r \in GrblReplies : FirmwareReply(r) /\ NoTrace
    \/ TransportFails /\ NoTrace

SpecFault == Init /\ [][NextFault]_vars

\* the Tk thread waits in send_gcode_and_wait for the answer to probe_tool's first probe
AwaitsFast ==
    \/ ui.h = "probe_old_tool" /\ ui.k > 0 /\ OldToolCmds[ui.k] = ProbeFast
    \/ ui.h = "probe_new_tool" /\ ui.k <= Len(NewToolCmds) /\ NewToolCmds[ui.k] = ProbeFast

\* SpecProbe: what the first probe of a probe_tool read, once its wait has ended
TraceProbe ==
    /\ touch1' = IF AwaitsFast /\ ~AwaitsFast' THEN z_position' ELSE touch1
    /\ UNCHANGED <<aborted, lines, sent, errs, spinStop, resumed, corr, raised>>

\* SpecProbe: tool changes, one after another, with the stop and home buttons and
\* no job; the serial line delivers every kind of probe report, and the port may fail
NextProbe ==
    \/ probe_old_tool /\ TraceProbe
    \/ probe_old_tool_read /\ TraceProbe
    \/ probe_new_tool /\ TraceProbe
    \/ probe_new_tool_read /\ TraceProbe
    \/ stop_program /\ TraceProbe
    \/ home_machine /\ TraceProbe
    \/ \E r \in ProbeReplies : FirmwareReply(r) /\ TraceProbe
    \/ TransportFails /\ TraceProbe

SpecProbe == Init /\ [][NextProbe]_vars

\* the command the Tk thread wrote when it was at u
CmdAt(u) ==
    IF u.h = "probe_old_tool" /\ u.k \in DOMAIN OldToolCmds THEN OldToolCmds[u.k]
    ELSE IF u.h = "probe_new_tool" /\ u.k \in DOMAIN NewToolCmds THEN NewToolCmds[u.k]
    ELSE HomeCmd

\* SpecCorr: a step of a tool-change handler. The line it read leaves corr.rx, and
\* the command it wrote joins the commands the firmware has to answer, unless the
\* firmware already holds MaxOwed of them
CorrHandler ==
    /\ corr' = [corr EXCEPT
                   !.rx = IF Len(rx') < Len(rx) THEN Tail(@) ELSE @,
                   !.q  = IF out' # <<>> /\ Len(@) < MaxOwed THEN Append(@, ui') ELSE @]
    /\ UNCHANGED <<aborted, lines, sent, errs, spinStop, resumed, touch1, raised>>

\* SpecCorr: the firmware answers the oldest command it holds. A probing move is
\* answered by one probe report and then ok, or by an error or alarm alone; any
\* other command by ok, an error or an alarm
Solicited(r) ==
    /\ corr.q # <<>>
    /\ IF Probing(CmdAt(Head(corr.q)))
       THEN IF r \in Closing THEN (r = OkLine <=> corr.prb) ELSE ~corr.prb
       ELSE r \in Closing

CorrReply(r) ==
    /\ Solicited(r)
    /\ corr' = [corr EXCEPT
                   !.rx  = Append(@, Head(corr.q)),
                   !.q   = IF r \in Closing THEN Tail(@) ELSE @,
                   !.prb = r \notin Closing]
    /\ UNCHANGED <<aborted, lines, sent, errs, spinStop, resumed, touch1, raised>>

\* SpecCorr: the two tool-change handlers on a real port that keeps working, with
\* a firmware that answers every command as GRBL does
NextCorr ==
    \/ probe_old_tool /\ CorrHandler
    \/ probe_old_tool_read /\ CorrHandler
    \/ probe_new_tool /\ CorrHandler
    \/ probe_new_tool_read /\ CorrHandler
    \/ \E r \in ProbeReplies : FirmwareReply(r) /\ CorrReply(r)

SpecCorr == InitWith({FALSE}) /\ [][NextCorr]_vars

\* SpecStop: one job at a time with the run, pause, stop and home buttons
NextStop ==
    \/ Solo /\ run_gcode /\ KeepAborted
    \/ pause_resume /\ KeepAborted
    \/ pause_resume_branch /\ KeepAborted
    \/ stop_program /\ MarkAborted
    \/ home_machine /\ KeepAborted
    \/ \E w \in Workers : gt_start(w) /\ KeepAborted
    \/ \E w \in Workers : gt_home_wait(w) /\ KeepAborted
    \/ \E w \in Workers : gt_loop(w) /\ KeepAborted
    \/ \E w \in Workers : gt_pause(w) /\ KeepAborted
    \/ \E w \in Workers : gt_spin(w) /\ KeepAborted
    \/ \E w \in Workers : gt_send(w) /\ KeepAborted
    \/ \E w \in Workers : gt_line_wait(w) /\ KeepAborted
    \/ \E w \in Workers : gt_trailer(w) /\ KeepAborted
    \/ \E w \in Workers : gt_trailer_send(w, BOOLEAN) /\ KeepAborted
    \/ \E w \in Workers : gt_trailer_wait(w) /\ KeepAborted
    \/ \E w \in Workers : gt_finally(w) /\ KeepAborted
    \/ \E w \in Workers : gt_ready(w) /\ KeepAborted
    \/ \E r \in GrblReplies : FirmwareReply(r) /\ KeepAborted

SpecStop == InitWith({FALSE}) /\ [][NextStop]_vars

\* SpecStopFair: SpecStop with the worker threads scheduled fairly and a firmware
\* that eventually closes every command it still owes an answer to; the operator
\* is under no obligation
SpecStopFair ==
    /\ SpecStop
    /\ \A w \in Workers : WF_vars(gcode_thread(w, BOOLEAN) /\ KeepAborted)
    /\ SF_vars((\E r \in Closing : FirmwareReply(r)) /\ KeepAborted)

\* SpecRun: jobs that are never stopped, one at a time, with what each read and wrote
NextRun ==
    \/ Solo /\ run_gcode /\ TraceRun
    \/ pause_resume /\ TraceRun
    \/ pause_resume_branch /\ TraceRun
    \/ \E w \in Workers : gt_start(w) /\ TraceRun
    \/ \E w \in Workers : gt_home_wait(w) /\ TraceRun
    \/ \E w \in Workers : gt_loop(w) /\ TraceRun
    \/ \E w \in Workers : gt_pause(w) /\ TraceRun
    \/ \E w \in Workers : gt_spin(w) /\ TraceRun
    \/ \E w \in Workers : gt_send(w) /\ TraceRun
    \/ \E w \in Workers : gt_line_wait(w) /\ TraceRun
    \/ \E w \in Workers : gt_trailer(w) /\ TraceRun
    \/ \E w \in Workers : gt_trailer_send(w, BOOLEAN) /\ TraceRun
    \/ \E w \in Workers : gt_trailer_wait(w) /\ TraceRun
    \/ \E w \in Workers : gt_finally(w) /\ TraceRun
    \/ \E w \in Workers : gt_ready(w) /\ TraceRun
    \/ \E r \in GrblReplies : FirmwareReply(r) /\ TraceRun

SpecRun == InitWith({FALSE}) /\ [][NextRun]_vars

\* SpecOk: as SpecRun with a transport that answers ok to every command line, the
\* newline after a soft reset included; the threads and the firmware are scheduled
\* fairly, the operator is not
NextOk ==
    \/ Solo /\ state = READY /\ run_gcode /\ TraceRun
    \/ pause_resume /\ TraceRun
    \/ pause_resume_branch /\ TraceRun
    \/ \E w \in Workers : gt_start(w) /\ TraceRun
    \/ \E w \in Workers : gt_home_wait(w) /\ TraceRun
    \/ \E w \in Workers : gt_loop(w) /\ TraceRun
    \/ \E w \in Workers : gt_pause(w) /\ TraceRun
    \/ \E w \in Workers : gt_spin(w) /\ TraceRun
    \/ \E w \in Workers : gt_send(w) /\ TraceRun
    \/ \E w \in Workers : gt_line_wait(w) /\ TraceRun
    \/ \E w \in Workers : gt_trailer(w) /\ TraceRun
    \/ \E w \in Workers : gt_trailer_send(w, {TRUE}) /\ TraceRun
    \/ \E w \in Workers : gt_trailer_wait(w) /\ TraceRun
    \/ \E w \in Workers : gt_finally(w) /\ TraceRun
    \/ \E w \in Workers : gt_ready(w) /\ TraceRun
    \/ FirmwareReply(OkLine) /\ TraceRun

SpecOk ==
    /\ InitWith({FALSE})
    /\ [][NextOk]_vars
    /\ \A w \in Workers : WF_vars(gcode_thread(w, {TRUE}) /\ TraceRun)
    /\ WF_vars(FirmwareReply(OkLine) /\ TraceRun)

(* ---------------- claims ---------------- *)

\* the threads whose send_line has written a command and not yet read its answer
InFlight(w) == pc[w] \in {"homeWait", "wait", "twait"}

\* a program line among the writes of the latest step, by whom
WroteProgramLine(w) == \E k \in DOMAIN out : out[k].by = w /\ out[k].cmd \in FileLines

\* C1 (stop supremacy): a worker thread in whose life stop_program has run writes
\* no further program line, whatever was requested after the stop.
C1_StopSupremacy == \A w \in Workers : aborted[w] => ~WroteProgramLine(w)

\* line.startswith(';')
StartsWithSemicolon(l) == l \in {CommentLine}

\* the lines of a file that are non-blank after trimming and do not begin with ';'
Filtered(f) == SelectSeq(f, LAMBDA l : Strip(l) # "" /\ ~StartsWithSemicolon(l))

\* C2 (line filtering): when a worker thread has read its file to the end, the
\* program lines it wrote are the file's non-blank, non-comment lines, in file order.
C2_LineFiltering ==
    \A w \in Workers : pc[w] \in {"trailer", "tsend", "twait"} => sent[w] = Filtered(lines[w])

\* C3 (transmission only in Running): whenever a worker thread writes a program
\* line, the machine state is Running.
C3_TransmitOnlyRunning == \A w \in Workers : WroteProgramLine(w) => state = RUNNING

\* C4 (serialized channel): while a command written by a worker thread awaits its
\* answer, no button handler writes to the transport.
C4_SerializedChannel ==
    (\E k \in DOMAIN out : out[k].by = UI) => \A w \in Workers : ~InFlight(w)

\* C5 (single worker): at most one worker thread is active.
C5_SingleWorker == Cardinality({w \in Workers : Active(w)}) <= 1

\* C6 (cleanup always ends in Ready): a worker thread ends only by its transition
\* to Ready; no exception ends it.
C6_CleanupEndsReady ==
    [][\A w \in Workers :
          (Active(w) /\ pc'[w] \in {"done", "crashed"}) => (pc'[w] = "done" /\ state' = READY)]_vars

\* C7 (job termination): with a transport that answers ok to every command line
\* and no stop request, if the machine is eventually never Paused again then every
\* job ends with its worker thread finished and the machine in Ready.
C7_JobTermination ==
    (<>[](state # PAUSED)) =>
        \A w \in Workers : [](Active(w) => <>(pc[w] = "done" /\ state = READY))

\* a job that wrote MaxLen program lines has finished with the machine in Ready
C7_Witness ==
    \E w \in Workers : pc[w] = "done" /\ state = READY /\ Len(sent[w]) = MaxLen

\* a control byte among the writes of a button handler
WroteControl(o, c) == \E k \in DOMAIN o : o[k].by = UI /\ o[k].cmd = c

\* C8 (no duplicate pause/resume control bytes): pause_resume writes '!' only with
\* the move Running -> Paused and '~' only with the move Paused -> Running, and in
\* any other state it changes no state and writes nothing.
C8_PauseResumeBytes ==
    [][pause_resume_branch =>
          /\ WroteControl(out', FeedHold) => (state = RUNNING /\ state' = PAUSED)
          /\ WroteControl(out', CycleStart) => (state = PAUSED /\ state' = RUNNING)
          /\ state \notin {RUNNING, PAUSED} => (state' = state /\ out' = <<>>)]_vars

\* the transition table of the state machine, with the move of a worker thread
\* that completes its job
TransitionTable ==
    {<<READY, RUNNING>>, <<RUNNING, READY>>, <<RUNNING, PAUSED>>, <<PAUSED, RUNNING>>, <<STOPPED, READY>>,
     <<READY, PROBING1>>, <<PROBING1, PROBING2>>, <<PROBING2, READY>>}
        \cup {<<s, STOPPED>> : s \in MachineState}

\* a button handler starts in a state the transition table gives it no move from
IllegalRequest ==
    \/ run_gcode /\ state # READY
    \/ home_machine /\ state # STOPPED
    \/ probe_old_tool /\ state # READY
    \/ probe_new_tool /\ state # PROBING2

\* C9 (illegal requests are no-ops): a run request outside Ready, a home request
\* outside Stopped, a begin-tool-change request outside Ready and a confirm-new-tool
\* request outside Probing Step 2 change no state and write nothing, and every
\* change of state is a move of the transition table.
C9_IllegalRequestsNoOp ==
    [][/\ IllegalRequest => (state' = state /\ out' = <<>>)
       /\ state' # state => <<state, state'>> \in TransitionTable]_vars

\* C10 (Stopped is left only by homing): the only step that takes the machine out
\* of Stopped is home_machine, which writes the home command and ends in Ready.
C10_StoppedLeftOnlyByHoming ==
    [][(state = STOPPED /\ state' # STOPPED) =>
          (home_machine /\ state' = READY /\ WroteControl(out', HomeCmd))]_vars

\* a probe report that carries three numbers
Parsable(l) == l \in {PrbLine, PrbLineFast}

\* a tool-length-offset command among the writes o
WroteG43(o) ==
    \E k \in DOMAIN o :
        o[k].cmd \in {"G43 Z0.0000\n", "G43 Z0.2200\n", "G43 Z-0.2200\n", "G43 Z?\n"}

\* C11 (no offset without a reading): G43 is written only by probe_new_tool on
\* reading a probe report that carries the new-tool Z, and only with a reference Z
\* recorded; the reference Z is recorded only by probe_old_tool on reading a probe
\* report that carries it.
C11_NoOffsetWithoutReading ==
    [][/\ WroteG43(out') =>
            /\ ui.h = "probe_new_tool" /\ rx # <<>> /\ Parsable(Head(rx))
            /\ old_tool_z # None
       /\ (old_tool_z' # old_tool_z /\ old_tool_z' # None) =>
            (ui.h = "probe_old_tool" /\ rx # <<>> /\ Parsable(Head(rx)))]_vars

\* the offset of two different readings has been written
C11_Witness == \E k \in DOMAIN out : out[k].by = UI /\ out[k].cmd = "G43 Z0.2200\n"

\* C12 (probe failure parks the machine): probe_old_tool on a real port enters
\* Probing Step 2 only with a reference Z recorded, and probe_new_tool, on a
\* second probe that ends without a reading, neither writes the home command nor
\* leaves Probing Step 2.
C12_ProbeFailureParks ==
    [][/\ (ui.h = "probe_old_tool" /\ ~dummy_mode /\ state' = PROBING2) => old_tool_z' # None
       /\ (/\ ui.h = "probe_new_tool" /\ serOK /\ ui.k = Len(NewToolCmds)
           /\ rx # <<>> /\ Contains(Head(rx), "PRB") /\ ~Parsable(Head(rx)))
              => (state' = state /\ ~WroteControl(out', HomeCmd))]_vars

\* a terminal response: 'ok', a line prefixed with 'error', a line containing 'ALARM'
Terminal(l) == l = "ok" \/ StartsWithError(l) \/ Contains(l, "ALARM")

\* the Tk thread waits in send_gcode_and_wait for the answer to a probing move
AwaitsProbe ==
    \/ ui.h = "probe_old_tool" /\ Probing(OldToolCmds[ui.k])
    \/ ui.h = "probe_new_tool" /\ ui.k <= Len(NewToolCmds) /\ Probing(NewToolCmds[ui.k])

\* C13 (terminal-response classification): a wait for the answer to an
\* ok-or-error command ends on reading a terminal response, in send_line of a
\* worker thread and in send_gcode_and_wait of a tool-change handler alike.
C13_TerminalEndsWait ==
    [][(serOK /\ rx # <<>> /\ Terminal(Head(rx))) =>
          /\ \A w \in Workers :
                (gt_home_wait(w) \/ gt_line_wait(w) \/ gt_trailer_wait(w)) => pc'[w] # pc[w]
          /\ ((probe_old_tool_read \/ probe_new_tool_read) /\ ~AwaitsProbe) => ui' # ui]_vars

\* the third coordinate of a probe report, in hundredths of a millimetre
ReportZ(l) ==
    CASE l = PrbLine     -> <<-4501>>
      [] l = PrbLineFast -> <<-4523>>
      [] OTHER           -> <<>>

\* a probe report is there to be read as the answer to probe_tool's second probe
SecondReport(h, cmds) ==
    /\ ui.h = h /\ serOK /\ rx # <<>>
    /\ ui.k \in DOMAIN cmds /\ cmds[ui.k] = ProbeSlow
    /\ Contains(Head(rx), "PRB")

C15_StopInPauseSpin == \A w \in Workers : spinStop[w] => ~WroteProgramLine(w)

\* C16 (stop is eventually honoured): a worker thread in whose life stop_program
\* has run eventually ends.
C16_StopHonoured == \A w \in Workers : aborted[w] ~> ~Active(w)

\* the UI thread is inside send_gcode_and_wait, between its ser.write and the line
\* that ends its read loop
UIBlocked == ~dummy_mode /\ ui.h \in {"probe_old_tool", "probe_new_tool"} /\ ui.k > 0

\* C17 (the UI thread never blocks on the channel): in no state is the UI thread
\* inside a read-until-terminal-response loop.
C17_UINeverBlocks == ~UIBlocked

\* C18 (intermediate lines do not end an ok-or-error wait): when a tool-change
\* handler waiting in send_gcode_and_wait without probing reads a line that is no
\* terminal response, it writes nothing and goes on waiting for the same command.
C18_IntermediateKeepsWaiting ==
    [][(/\ UIBlocked /\ serOK /\ ~AwaitsProbe
        /\ rx # <<>> /\ ~Terminal(Head(rx))
        /\ (probe_old_tool_read \/ probe_new_tool_read))
       => (ui' = ui /\ out' = <<>> /\ state' = state)]_vars

\* C19 (firmware errors are non-fatal to the stream): a worker thread that reads an
\* error answer to a program line returns to its loop over the file and leaves the
\* machine state alone; the loop is left for cleanup only in Stopped; and the
\* thread that finds Running at its pause test writes the line it holds.
C19_ErrorsNonFatal ==
    [][\A w \in Workers :
          /\ (gt_line_wait(w) /\ rx # <<>> /\ StartsWithError(Head(rx)))
                 => (pc'[w] = "loop" /\ state' = state)
          /\ (pc[w] = "loop" /\ pc'[w] = "finally") => state = STOPPED
          /\ (gt_pause(w) /\ state = RUNNING) => pc'[w] = "send"
          /\ (gt_send(w) /\ Strip(line[w]) # "") =>
                 (pc'[w] = "wait" /\ out' = Tx(w, <<line[w]>>))]_vars

\* a thread that read an error answer has written its next program line in Running
C19_Witness ==
    \E w \in Workers : errs[w] >= 1 /\ pc[w] = "wait" /\ state = RUNNING /\ WroteProgramLine(w)

\* C20 (reference Z is captured on entry to ProbingNewTool): whenever the machine
\* state is Probing Step 2, old_tool_z holds a number.
C20_ReferenceZCaptured == state = PROBING2 => old_tool_z # None

\* C21 (response correlation): when a wait of send_gcode_and_wait in a tool-change
\* handler ends on a terminal response, the firmware produced that response for
\* the command the handler is waiting for, not for an earlier one.
C21_ResponseCorrelation ==
    [][(/\ UIBlocked /\ rx # <<>> /\ Head(rx) \in Closing
        /\ (probe_old_tool_read \/ probe_new_tool_read)
        /\ ui' # ui)
       => Head(corr.rx) = ui]_vars

\* the lines of a file that send_line writes: those that are non-blank after trimming
NonBlank(f) == SelectSeq(f, LAMBDA l : Strip(l) # "")

\* the lines the file has yielded to w, less the one w still holds
Passed(w) ==
    IF pc[w] \in {"pause", "spin", "send"}
    THEN SubSeq(lines[w], 1, Len(lines[w]) - 1)
    ELSE lines[w]

\* C22 (pause/resume preserves the stream): in a job that is never stopped, however
\* often it is paused and resumed, the program lines written are at every moment
\* the non-blank lines the file has yielded and the thread no longer holds - each
\* once, in file order - which is what the job writes without any pause.
C22_PausePreservesStream == \A w \in Workers : sent[w] = NonBlank(Passed(w))

\* a job that slept in its pause loop and was resumed has read the whole file and
\* written MaxLen program lines
C22_Witness ==
    \E w \in Workers :
        resumed[w] /\ pc[w] \in {"trailer", "tsend", "twait"} /\ Len(sent[w]) = MaxLen

\* C23 (the dummy transport is never touched): with no port, no handler ends by an
\* exception, and a click on run in Ready puts the machine in Running.
C23_DummyNeverTouched ==
    [][(dummy_mode /\ state = READY /\ Solo /\ run_gcode)
       => (state' = RUNNING /\ ~raised')]_vars

\* C24 (the spindle is stopped before Ready): when a worker thread that has
\* streamed lines of its file in a job that is never stopped returns the machine
\* to Ready, it has written the whole trailer - M5, $H, soft reset - in order.
C24_TrailerBeforeReady ==
    [][\A w \in Workers :
          (gt_ready(w) /\ lines[w] # <<>>) => t[w] = Len(TrailerCmds)]_vars

====
